---- MODULE Spec2Model ----
(***************************************************************************)
(* Revenue forecasting engine of freelanceflow                             *)
(* (src/backend/src/utils/regression.ts).                                  *)
(*                                                                         *)
(* The engine is a set of pure functions over JavaScript numbers.  A       *)
(* number is modelled as an exact fraction n/d in lowest terms (d > 0)     *)
(* extended with the three IEEE-754 special values the code can produce    *)
(* when it divides by a zero pivot or a zero variance:                     *)
(*      +Infinity = 1/0,   -Infinity = -1/0,   NaN = 0/0.                  *)
(* Rounding of finite values is not modelled: finite results are the       *)
(* exact results the floating-point computation approximates.  The sign of *)
(* zero is not modelled either: every divisor of the code is a pivot or a  *)
(* sum of squares, which are accumulated from +0 and are never -0.         *)
(***************************************************************************)
EXTENDS Integers, Sequences, FiniteSets, TLC

\* ------------------------------------------------------------------------
\* Bounds of the model
\* ------------------------------------------------------------------------
MaxLen == 3
MaxDegree == 3
MaxCount == 2

\* ------------------------------------------------------------------------
\* JavaScript numbers
\* ------------------------------------------------------------------------
NaN == [n |-> 0, d |-> 0]
PosInf == [n |-> 1, d |-> 0]
NegInf == [n |-> -1, d |-> 0]

IntAbs(i) == IF i < 0 THEN -i ELSE i
Sgn(i) == IF i > 0 THEN 1 ELSE IF i < 0 THEN -1 ELSE 0

RECURSIVE Gcd(_, _)
Gcd(a, b) == IF b = 0 THEN a ELSE Gcd(b, a % b)

\* The number p/q, q # 0, in lowest terms with a positive denominator.
Frac(p, q) ==
  LET g == Gcd(IntAbs(p), IntAbs(q))
      s == IF q < 0 THEN -1 ELSE 1
  IN  [n |-> (s * p) \div g, d |-> (s * q) \div g]

Num(i) == [n |-> i, d |-> 1]
Zero == Num(0)
One == Num(1)

IsNaN(a) == a.d = 0 /\ a.n = 0
IsFinite(a) == a.d > 0
IsInf(a) == a.d = 0 /\ a.n # 0

\* a + b
Add(a, b) ==
  IF IsNaN(a) \/ IsNaN(b) THEN NaN
  ELSE IF IsInf(a) THEN (IF IsInf(b) /\ b.n # a.n THEN NaN ELSE a)
  ELSE IF IsInf(b) THEN b
  ELSE IF a.d = 1 /\ b.d = 1 THEN [n |-> a.n + b.n, d |-> 1]
  ELSE LET g == Gcd(a.d, b.d)
       IN  Frac(a.n * (b.d \div g) + b.n * (a.d \div g), (a.d \div g) * b.d)

Neg(a) == [n |-> -(a.n), d |-> a.d]

\* a - b
Sub(a, b) == Add(a, Neg(b))

\* a * b
Mul(a, b) ==
  IF IsNaN(a) \/ IsNaN(b) THEN NaN
  ELSE IF IsInf(a) \/ IsInf(b)
       THEN (IF a.n = 0 \/ b.n = 0 THEN NaN
             ELSE [n |-> Sgn(a.n) * Sgn(b.n), d |-> 0])
  ELSE IF a.d = 1 /\ b.d = 1 THEN [n |-> a.n * b.n, d |-> 1]
  ELSE LET g1 == Gcd(IntAbs(a.n), b.d)
           g2 == Gcd(IntAbs(b.n), a.d)
       IN  [n |-> (a.n \div g1) * (b.n \div g2),
            d |-> (a.d \div g2) * (b.d \div g1)]

\* a / b
Div(a, b) ==
  IF IsNaN(a) \/ IsNaN(b) THEN NaN
  ELSE IF IsInf(b) THEN (IF IsInf(a) THEN NaN ELSE Zero)
  ELSE IF b.n = 0 THEN (IF a.n = 0 THEN NaN ELSE [n |-> Sgn(a.n), d |-> 0])
  ELSE IF IsInf(a) THEN [n |-> Sgn(a.n) * Sgn(b.n), d |-> 0]
  ELSE Mul(a, [n |-> Sgn(b.n) * b.d, d |-> IntAbs(b.n)])

\* a > b ; every comparison with NaN is false
Gt(a, b) ==
  IF IsNaN(a) \/ IsNaN(b) THEN FALSE
  ELSE IF IsInf(a) THEN a.n = 1 /\ b # PosInf
  ELSE IF IsInf(b) THEN b.n = -1
  ELSE a.n * b.d > b.n * a.d

\* a >= b ; false when either is NaN
Geq(a, b) == ~IsNaN(a) /\ ~IsNaN(b) /\ ~Gt(b, a)

\* Math.abs
MathAbs(a) == [n |-> IntAbs(a.n), d |-> a.d]

\* Math.max(a, b) ; NaN when either argument is NaN
MathMax(a, b) ==
  IF IsNaN(a) \/ IsNaN(b) THEN NaN ELSE IF Gt(b, a) THEN b ELSE a

\* Math.pow(x, j) for a number x and an integer exponent j >= 0
RECURSIVE MathPow(_, _)
MathPow(x, j) == IF j = 0 THEN One ELSE Mul(x, MathPow(x, j - 1))

\* ------------------------------------------------------------------------
\* Matrix helpers
\* ------------------------------------------------------------------------
\* transpose reads matrix[0].length: it throws a TypeError on an empty matrix
transposeThrows(matrix) == Len(matrix) = 0

transpose(matrix) ==
  [j \in 1..Len(matrix[1]) |-> [i \in 1..Len(matrix) |-> matrix[i][j]]]

\* sum of f[1..k], accumulated from 0 in index order
RECURSIVE SumTo(_, _)
SumTo(f, k) == IF k = 0 THEN Zero ELSE Add(SumTo(f, k - 1), f[k])

matrixMultiply(A, B) ==
  [i \in 1..Len(A) |->
     [j \in 1..Len(B[1]) |->
        SumTo([k \in 1..Len(A[1]) |-> Mul(A[i][k], B[k][j])], Len(A[1]))]]

matrixVectorMultiply(A, v) ==
  [i \in 1..Len(A) |->
     SumTo([j \in 1..Len(v) |-> Mul(A[i][j], v[j])], Len(v))]

\* ------------------------------------------------------------------------
\* gaussianElimination
\* ------------------------------------------------------------------------
\* the step without a pivot search: the row at position i stays
FindPivotNone(augmented, i, k, maxRow) == maxRow

\* the pivot search of step i: rows i+1..n scanned in order from k
RECURSIVE FindPivot(_, _, _, _)
FindPivot(augmented, i, k, maxRow) ==
  IF k > Len(augmented) THEN maxRow
  ELSE FindPivot(augmented, i, k + 1,
         IF Gt(MathAbs(augmented[k][i]), MathAbs(augmented[maxRow][i]))
         THEN k ELSE maxRow)

\* the exchange that forgets to move row i to position maxRow
SwapRowsOverwrite(augmented, i, maxRow) ==
  [r \in 1..Len(augmented) |->
     IF r = i THEN augmented[maxRow] ELSE augmented[r]]

SwapRows(augmented, i, maxRow) ==
  [r \in 1..Len(augmented) |->
     IF r = i THEN augmented[maxRow]
     ELSE IF r = maxRow THEN augmented[i]
     ELSE augmented[r]]

\* the factor of row k at step i
Factor(augmented, i, k) == Div(augmented[k][i], augmented[i][i])

\* rows below i get  row[k][j] -= factor * row[i][j]  for the columns j >= i
EliminateColumn(augmented, i) ==
  [k \in 1..Len(augmented) |->
     IF k <= i THEN augmented[k]
     ELSE LET factor == Div(augmented[k][i], augmented[i][i])
          IN  [j \in 1..Len(augmented[k]) |->
                 IF j < i THEN augmented[k][j]
                 ELSE Sub(augmented[k][j], Mul(factor, augmented[i][j]))]]

\* one step of the forward elimination: pivot search, swap, elimination
ForwardStep(augmented, i) ==
  EliminateColumn(SwapRows(augmented, i, FindPivot(augmented, i, i + 1, i)), i)

RECURSIVE ForwardElimination(_, _)
ForwardElimination(augmented, i) ==
  IF i > Len(augmented) THEN augmented
  ELSE ForwardElimination(ForwardStep(augmented, i), i + 1)

\* x[i] of the back substitution, given x[i+1..n] in xs (xs[j] defined for j > i)
RECURSIVE BackRow(_, _, _, _, _)
BackRow(augmented, xs, i, j, acc) ==
  IF j > Len(augmented) THEN acc
  ELSE BackRow(augmented, xs, i, j + 1, Sub(acc, Mul(augmented[i][j], xs[j])))

\* the x of  new Array(n)  returned before any row is solved
BackSubstitutionUnset(augmented, xs, i) == xs

RECURSIVE BackSubstitution(_, _, _)
BackSubstitution(augmented, xs, i) ==
  IF i = 0 THEN xs
  ELSE LET n == Len(augmented)
           xi == Div(BackRow(augmented, xs, i, i + 1, augmented[i][n + 1]),
                     augmented[i][i])
       IN  BackSubstitution(augmented, [xs EXCEPT ![i] = xi], i - 1)

gaussianElimination(A, b) ==
  LET n == Len(A)
      augmented == [i \in 1..n |-> Append(A[i], b[i])]
      reduced == ForwardElimination(augmented, 1)
  IN  BackSubstitution(reduced, [i \in 1..n |-> NaN], n)

\* ------------------------------------------------------------------------
\* polynomialRegression, predict, generateProjections, calculateR2
\* ------------------------------------------------------------------------
\* the degree as passed, without the fallback for short series
EffectiveDegreeNoFallback(n, degree) == degree

\* the fallback without the floor of 1
EffectiveDegreeNoFloor(n, degree) ==
  IF n < degree + 1 THEN n - 1 ELSE degree

\* the degree the fit uses
EffectiveDegree(n, degree) ==
  IF n < degree + 1 THEN (IF n - 1 > 1 THEN n - 1 ELSE 1) ELSE degree

DesignMatrix(data, degree) ==
  [i \in 1..Len(data) |->
     [j \in 1..(degree + 1) |-> MathPow(Num(data[i].x), j - 1)]]

\* [threw, value]: threw is TRUE when the call ends in a TypeError
polynomialRegression(data, degree) ==
  LET n == Len(data)
      deg == EffectiveDegree(n, degree)
      X == DesignMatrix(data, deg)
      Y == [i \in 1..n |-> Num(data[i].y)]
  IN  IF transposeThrows(X) THEN [threw |-> TRUE, value |-> << >>]
      ELSE LET XT == transpose(X)
               XTX == matrixMultiply(XT, X)
               XTY == matrixVectorMultiply(XT, Y)
           IN  [threw |-> FALSE, value |-> gaussianElimination(XTX, XTY)]

\* the polynomial value before the clamp
RECURSIVE RawPredict(_, _, _)
RawPredict(x, coefficients, k) ==
  IF k = 0 THEN Zero
  ELSE Add(RawPredict(x, coefficients, k - 1),
           Mul(coefficients[k], MathPow(x, k - 1)))

\* predict without the clamp
predictUnclamped(x, coefficients) ==
  RawPredict(x, coefficients, Len(coefficients))

predict(x, coefficients) ==
  MathMax(Zero, RawPredict(x, coefficients, Len(coefficients)))

\* the x of the first sample instead of the last
FirstX(historicalData) ==
  IF Len(historicalData) = 0 THEN 0 ELSE historicalData[1].x

\* historicalData[historicalData.length - 1]?.x || 0
LastX(historicalData) ==
  IF Len(historicalData) = 0 THEN 0 ELSE historicalData[Len(historicalData)].x

\* the projection from a fit of degree 1, whatever degree is asked for
generateProjectionsLinear(historicalData, futurePoints, degree) ==
  LET fit == polynomialRegression(historicalData, 1)
      lastX == LastX(historicalData)
  IN  [threw |-> fit.threw,
       value |-> IF fit.threw THEN << >>
                 ELSE [i \in 1..futurePoints |->
                         [x |-> lastX + i, y |-> predict(Num(lastX + i), fit.value)]]]

\* the projection with a default for the empty series instead of the fit
generateProjectionsDefaulting(historicalData, futurePoints, degree) ==
  LET lastX == LastX(historicalData)
      c == IF Len(historicalData) = 0 THEN <<Zero>>
           ELSE polynomialRegression(historicalData, degree).value
  IN  [threw |-> FALSE,
       value |-> [i \in 1..futurePoints |->
                    [x |-> lastX + i, y |-> predict(Num(lastX + i), c)]]]

generateProjections(historicalData, futurePoints, degree) ==
  LET fit == polynomialRegression(historicalData, degree)
      lastX == LastX(historicalData)
  IN  IF fit.threw THEN [threw |-> TRUE, value |-> << >>]
      ELSE [threw |-> FALSE,
            value |-> [i \in 1..futurePoints |->
                         [x |-> lastX + i,
                          y |-> predict(Num(lastX + i), fit.value)]]]

\* the score clamped to [0, 1]
calculateR2Clamped(data, coefficients) ==
  LET n == Len(data)
      yMean == Div(SumTo([i \in 1..n |-> Num(data[i].y)], n), Num(n))
      ssTotal == SumTo([i \in 1..n |->
                          MathPow(Sub(Num(data[i].y), yMean), 2)], n)
      ssResidual == SumTo([i \in 1..n |->
                             MathPow(Sub(Num(data[i].y),
                                         predict(Num(data[i].x), coefficients)), 2)], n)
      score == Sub(One, Div(ssResidual, ssTotal))
  IN  IF Gt(Zero, score) THEN Zero ELSE IF Gt(score, One) THEN One ELSE score

\* the ratio of the sums of squares inverted
calculateR2Inverted(data, coefficients) ==
  LET n == Len(data)
      yMean == Div(SumTo([i \in 1..n |-> Num(data[i].y)], n), Num(n))
      ssTotal == SumTo([i \in 1..n |->
                          MathPow(Sub(Num(data[i].y), yMean), 2)], n)
      ssResidual == SumTo([i \in 1..n |->
                             MathPow(Sub(Num(data[i].y),
                                         predict(Num(data[i].x), coefficients)), 2)], n)
  IN  Sub(One, Div(ssTotal, ssResidual))

calculateR2(data, coefficients) ==
  LET n == Len(data)
      yMean == Div(SumTo([i \in 1..n |-> Num(data[i].y)], n), Num(n))
      ssTotal == SumTo([i \in 1..n |->
                          MathPow(Sub(Num(data[i].y), yMean), 2)], n)
      ssResidual == SumTo([i \in 1..n |->
                             MathPow(Sub(Num(data[i].y),
                                         predict(Num(data[i].x), coefficients)), 2)], n)
  IN  Sub(One, Div(ssResidual, ssTotal))

\* ------------------------------------------------------------------------
\* The engine as called by a client.  Every function is pure, so a behaviour
\* is a call on arguments of the caller's choice, possibly followed by calls
\* on the coefficients the fit returned (as GET /analytics/revenue does).
\* ------------------------------------------------------------------------
VARIABLES
  data,          \* series argument of the calls made so far
  degree,        \* degree argument of the fit or projection call
  futurePoints,  \* futurePoints argument of the projection call
  px,            \* x argument of the predict call
  coefficients,  \* coefficient vector: returned by the fit, or the caller's own
  fitted,        \* TRUE when coefficients was returned by polynomialRegression(data, degree)
  op,            \* the last function called, "none" before the first call
  threw,         \* TRUE when the last call ended in an exception
  py,            \* value returned by predict
  projections,   \* value returned by generateProjections
  rSquared,      \* value returned by calculateR2
  proc,          \* the invocations in progress, one record per caller
  heap,          \* the arrays the invocations hold, by address
  request        \* the GET /analytics/revenue request being served

engine == <<data, degree, futurePoints, px, coefficients, fitted, op, threw,
            py, projections, rSquared, request>>
vars == <<data, degree, futurePoints, px, coefficients, fitted, op, threw,
          py, projections, rSquared, proc, heap, request>>

\* no request received yet
NoRequest == [pc |-> "idle"]

\* the callers, and a caller with no invocation in progress
Procs == {1, 2}
NoCall ==
  [pc |-> "idle", kind |-> "none", data |-> << >>, degree |-> 0,
   threw |-> FALSE, A |-> << >>, b |-> 0, augmented |-> << >>, i |-> 0,
   factors |-> << >>, x |-> << >>]

\* the arguments callers draw from
XValues == 0..2
YValues == 0..1
Samples == [x : XValues, y : YValues]
\* series of any x, in any order, up to MaxLen samples
FreeSeries == UNION {[1..n -> Samples] : n \in 0..MaxLen}
\* series as GET /analytics/revenue forwards them: x = 0, 1, 2, 3 in order
ConsecutiveSeries ==
  {[i \in 1..4 |-> [x |-> i - 1, y |-> ys[i]]] : ys \in [1..4 -> YValues]}
Series == FreeSeries \cup ConsecutiveSeries
Degrees == 0..MaxDegree
Counts == 0..MaxCount
PredictX == 0..(2 + MaxCount)
CoefficientValues == {Num(-1), Zero, One, Frac(1, 2)}
CoefficientInputs ==
  UNION {[1..n -> CoefficientValues] : n \in 0..2}
    \cup {<<Num(100), Num(-50), Num(5)>>}

Init ==
  /\ data = << >>
  /\ degree = 0
  /\ futurePoints = 0
  /\ px = 0
  /\ coefficients = << >>
  /\ fitted = FALSE
  /\ op = "none"
  /\ threw = FALSE
  /\ py = Zero
  /\ projections = << >>
  /\ rSquared = Zero
  /\ proc = [p \in Procs |-> NoCall]
  /\ heap = << >>
  /\ request = NoRequest

\* the caller assembles the series it will pass to the engine
ReceiveSeries ==
  /\ op = "none"
  /\ \E d \in Series : data' = d
  /\ op' = "series"
  /\ UNCHANGED <<degree, futurePoints, px, coefficients, fitted, threw, py,
                 projections, rSquared, proc, heap,
                 request>>

\* coefficients = polynomialRegression(data, degree)
CallPolynomialRegression ==
  /\ op = "series"
  /\ \E deg \in Degrees :
       LET r == polynomialRegression(data, deg)
       IN  /\ degree' = deg
           /\ threw' = r.threw
           /\ coefficients' = r.value
           /\ fitted' = ~r.threw
  /\ op' = "polynomialRegression"
  /\ UNCHANGED <<data, futurePoints, px, py, projections, rSquared, proc, heap,
                 request>>

\* py = predict(px, coefficients), on a vector of the caller's or on the fit's
CallPredict ==
  /\ \/ op = "none"
     \/ op = "polynomialRegression" /\ ~threw
  /\ \E x \in PredictX,
        c \in (IF op = "none" THEN CoefficientInputs ELSE {coefficients}) :
       /\ px' = x
       /\ coefficients' = c
       /\ py' = predict(Num(x), c)
  /\ op' = "predict"
  /\ UNCHANGED <<data, degree, futurePoints, fitted, threw, projections,
                 rSquared, proc, heap,
                 request>>

\* rSquared = calculateR2(data, coefficients), on a vector of the caller's or
\* on the coefficients fitted to data
CallCalculateR2 ==
  /\ \/ op = "series"
     \/ op = "polynomialRegression" /\ ~threw
  /\ \E c \in (IF op = "series" THEN CoefficientInputs ELSE {coefficients}) :
       /\ coefficients' = c
       /\ rSquared' = calculateR2(data, c)
  /\ op' = "calculateR2"
  /\ UNCHANGED <<data, degree, futurePoints, px, fitted, threw, py,
                 projections, proc, heap,
                 request>>

\* projections = generateProjections(data, futurePoints, degree)
CallGenerateProjections ==
  /\ op = "series"
  /\ \E deg \in Degrees, count \in Counts :
       LET r == generateProjections(data, count, deg)
       IN  /\ degree' = deg
           /\ futurePoints' = count
           /\ threw' = r.threw
           /\ projections' = r.value
  /\ op' = "generateProjections"
  /\ UNCHANGED <<data, px, coefficients, fitted, py, rSquared, proc, heap,
                 request>>

\* GET /analytics/test-regression: the fixed six-point series
testData ==
  <<[x |-> 0, y |-> 2800], [x |-> 1, y |-> 3200], [x |-> 2, y |-> 2950],
    [x |-> 3, y |-> 3600], [x |-> 4, y |-> 3400], [x |-> 5, y |-> 3800]>>

\* the handler fits testData with degree 2, scores the fit and projects 3 points
TestRegression ==
  /\ op = "none"
  /\ LET fit == polynomialRegression(testData, 2)
         proj == generateProjections(testData, 3, 2)
     IN  /\ data' = testData
         /\ degree' = 2
         /\ futurePoints' = 3
         /\ coefficients' = fit.value
         /\ fitted' = ~fit.threw
         /\ rSquared' = IF fit.threw THEN rSquared
                        ELSE calculateR2(testData, fit.value)
         /\ projections' = proj.value
         /\ threw' = (fit.threw \/ proj.threw)
  /\ op' = "testRegression"
  /\ UNCHANGED <<px, py, proc, heap,
                 request>>

Next ==
  \/ ReceiveSeries
  \/ CallPolynomialRegression
  \/ CallPredict
  \/ CallCalculateR2
  \/ CallGenerateProjections
  \/ TestRegression

Spec == Init /\ [][Next]_vars

\* ------------------------------------------------------------------------
\* The fit step by step.  An invocation holds its arrays by address: the
\* matrix A is an array of row addresses, b an address, and the elimination
\* writes through the addresses of the working matrix.  Several callers may
\* have an invocation in progress; their steps interleave.
\* ------------------------------------------------------------------------
Range(f) == {f[k] : k \in 1..Len(f)}

\* n addresses not in use, the lowest first, from a upward
RECURSIVE Allocate(_, _, _)
Allocate(used, n, a) ==
  IF n = 0 THEN << >>
  ELSE IF a \in used THEN Allocate(used, n, a + 1)
  ELSE <<a>> \o Allocate(used, n - 1, a + 1)

\* the arrays at the addresses rows
Matrix(h, rows) == [k \in 1..Len(rows) |-> h[rows[k]]]

\* the heap h with vals[k] written at address rows[k]
Store(h, rows, vals) ==
  [a \in DOMAIN h \cup Range(rows) |->
     IF a \in Range(rows)
     THEN vals[CHOOSE k \in 1..Len(rows) : rows[k] = a]
     ELSE h[a]]

\* the working matrix built on the rows of A themselves
AugmentedRowsInPlace(h, A) == A

\* the working matrix kept in one buffer of the module
AugmentedRowsStatic(h, A) == [k \in 1..Len(A) |-> 0 - k]

\* A.map((row, i) => [...row, b[i]]) makes a new array for every row
AugmentedRows(h, A) == Allocate(DOMAIN h, Len(A), 1)

\* the addresses an invocation holds
Held(c) ==
  Range(c.A) \cup Range(c.augmented)
    \cup (IF c.pc \in {"called", "forward", "back"} \/ (c.pc = "done" /\ ~c.threw)
          THEN {c.b} ELSE {})

\* gaussianElimination(M, v) is entered by caller p, M and v being arrays of
\* their own
Call(p, kind, d, g, M, v) ==
  LET n == Len(M)
      rows == Allocate(DOMAIN heap, n + 1, 1)
  IN  /\ heap' = Store(heap, rows, Append(M, v))
      /\ proc' = [proc EXCEPT ![p] =
                    [NoCall EXCEPT !.pc = "called", !.kind = kind, !.data = d,
                                   !.degree = g, !.A = SubSeq(rows, 1, n),
                                   !.b = rows[n + 1]]]

\* polynomialRegression(d, g) up to its call of gaussianElimination
Fit(p, d, g) ==
  /\ proc[p].pc \in {"idle", "returned"}
  /\ LET X == DesignMatrix(d, EffectiveDegree(Len(d), g))
         Y == [i \in 1..Len(d) |-> Num(d[i].y)]
     IN  IF transposeThrows(X)
         THEN /\ proc' = [proc EXCEPT ![p] =
                            [NoCall EXCEPT !.pc = "done", !.kind = "fit",
                                           !.data = d, !.degree = g,
                                           !.threw = TRUE]]
              /\ heap' = heap
         ELSE Call(p, "fit", d, g, matrixMultiply(transpose(X), X),
                   matrixVectorMultiply(transpose(X), Y))

\* gaussianElimination on a system of the caller's
Solve(p, sys) ==
  /\ proc[p].pc \in {"idle", "returned"}
  /\ Call(p, "solve", << >>, 0,
          [r \in 1..Len(sys.A) |-> [c \in 1..Len(sys.A) |-> Num(sys.A[r][c])]],
          [r \in 1..Len(sys.A) |-> Num(sys.b[r])])

\* const augmented = A.map((row, i) => [...row, b[i]])
GaussCopy(p) ==
  /\ proc[p].pc = "called"
  /\ LET A == proc[p].A
         rows == AugmentedRows(heap, A)
     IN  /\ heap' = Store(heap, rows,
                          [k \in 1..Len(A) |-> Append(heap[A[k]], heap[proc[p].b][k])])
         /\ proc' = [proc EXCEPT ![p].pc = "forward", ![p].augmented = rows,
                                 ![p].i = 1]
  /\ UNCHANGED engine

\* step i of the forward elimination: pivot search, swap, elimination; after
\* the last step  x = new Array(n)
GaussForwardStep(p) ==
  /\ proc[p].pc = "forward"
  /\ LET i == proc[p].i
         n == Len(proc[p].A)
         maxRow == FindPivot(Matrix(heap, proc[p].augmented), i, i + 1, i)
         rows == SwapRows(proc[p].augmented, i, maxRow)
         swapped == Matrix(heap, rows)
     IN  /\ heap' = Store(heap, rows, EliminateColumn(swapped, i))
         /\ proc' = [proc EXCEPT
                       ![p].augmented = rows,
                       ![p].factors = [k \in 1..(n - i) |-> Factor(swapped, i, i + k)],
                       ![p].i = IF i = n THEN n ELSE i + 1,
                       ![p].pc = IF i = n THEN "back" ELSE "forward",
                       ![p].x = IF i = n THEN [k \in 1..n |-> NaN] ELSE << >>]
  /\ UNCHANGED engine

\* row i of the back substitution, from the last row upward
GaussBackStep(p) ==
  /\ proc[p].pc = "back"
  /\ LET i == proc[p].i
         n == Len(proc[p].A)
         W == Matrix(heap, proc[p].augmented)
         xi == Div(BackRow(W, proc[p].x, i, i + 1, W[i][n + 1]), W[i][i])
     IN  proc' = [proc EXCEPT ![p].x = [proc[p].x EXCEPT ![i] = xi],
                              ![p].i = i - 1,
                              ![p].pc = IF i = 1 THEN "done" ELSE "back"]
  /\ UNCHANGED <<heap, engine>>

\* the invocation returns x; the arrays no caller holds any more are gone
Return(p) ==
  /\ proc[p].pc = "done"
  /\ proc' = [proc EXCEPT ![p].pc = "returned", ![p].A = << >>, ![p].b = 0,
                          ![p].augmented = << >>, ![p].i = 0,
                          ![p].factors = << >>]
  /\ heap' = [a \in DOMAIN heap \cap UNION {Held(proc[q]) : q \in Procs \ {p}}
                |-> heap[a]]

\* the systems a caller of gaussianElimination draws from
MatrixEntries == -2..2
Square(n, entries) == [1..n -> [1..n -> entries]]
Systems ==
  [A : Square(1, MatrixEntries), b : [1..1 -> 0..1]]
    \cup [A : Square(2, MatrixEntries), b : [1..2 -> 0..1]]
    \cup [A : Square(3, 0..1), b : [1..3 -> 0..1]]

\* polynomialRegression(data, degree) is entered
BeginFit ==
  /\ op = "series"
  /\ \E g \in Degrees : Fit(1, data, g) /\ degree' = g
  /\ op' = "fitting"
  /\ UNCHANGED <<data, futurePoints, px, coefficients, fitted, threw, py,
                 projections, rSquared,
                 request>>

\* coefficients = the value polynomialRegression returns
EndFit ==
  /\ op = "fitting"
  /\ Return(1)
  /\ coefficients' = proc[1].x
  /\ threw' = proc[1].threw
  /\ fitted' = ~proc[1].threw
  /\ op' = "polynomialRegression"
  /\ UNCHANGED <<data, degree, futurePoints, px, py, projections, rSquared,
                 request>>

StartSolve ==
  /\ op = "none"
  /\ \E sys \in Systems : Solve(1, sys)
  /\ op' = "solving"
  /\ UNCHANGED <<data, degree, futurePoints, px, coefficients, fitted, threw,
                 py, projections, rSquared,
                 request>>

EndSolve ==
  /\ op = "solving"
  /\ Return(1)
  /\ op' = "gaussianElimination"
  /\ UNCHANGED <<data, degree, futurePoints, px, coefficients, fitted, threw,
                 py, projections, rSquared,
                 request>>

\* generateProjections on the series and degree just fitted, as
\* GET /analytics/revenue calls it after polynomialRegression
ProjectFittedSeries ==
  /\ op = "polynomialRegression"
  /\ ~threw
  /\ \E count \in Counts :
       LET r == generateProjections(data, count, degree)
       IN  /\ futurePoints' = count
           /\ threw' = r.threw
           /\ projections' = r.value
  /\ op' = "generateProjections"
  /\ UNCHANGED <<data, degree, px, coefficients, fitted, py, rSquared, proc,
                 heap, request>>

NextGauss ==
  \/ ReceiveSeries
  \/ BeginFit
  \/ StartSolve
  \/ GaussCopy(1)
  \/ GaussForwardStep(1)
  \/ GaussBackStep(1)
  \/ EndFit
  \/ EndSolve
  \/ CallPredict
  \/ CallCalculateR2
  \/ CallGenerateProjections
  \/ ProjectFittedSeries

\* the engine with the fit taken step by step
SpecGauss == Init /\ [][NextGauss]_vars

\* two callers, each fitting series of its own
ConcSeries ==
  {[i \in 1..2 |-> [x |-> i - 1, y |-> ys[i]]] : ys \in [1..2 -> 0..1]}
ConcDegrees == {1}

ConcFit(p) ==
  /\ \E d \in ConcSeries, g \in ConcDegrees : Fit(p, d, g)
  /\ UNCHANGED engine

ConcReturn(p) ==
  /\ Return(p)
  /\ UNCHANGED engine

NextConc ==
  \/ \E p \in Procs : ConcFit(p)
  \/ \E p \in Procs : GaussCopy(p)
  \/ \E p \in Procs : GaussForwardStep(p)
  \/ \E p \in Procs : GaussBackStep(p)
  \/ \E p \in Procs : ConcReturn(p)

\* the invocations of two callers, interleaved step by step
SpecConc == Init /\ [][NextConc]_vars

\* ------------------------------------------------------------------------
\* GET /analytics/revenue (src/backend/src/routes/analytics.ts).  A date is
\* a calendar day [y, m, d] with m = 0..11 as getMonth() returns it; the
\* time of day, time zones and daylight saving are not modelled.
\* ------------------------------------------------------------------------
monthNames ==
  <<"Jan", "Feb", "Mar", "Apr", "May", "Jun",
    "Jul", "Aug", "Sep", "Oct", "Nov", "Dec">>

\* monthNames.indexOf(name), from 0, and -1 when name is no month name
IndexOfMonth(name) ==
  IF \E k \in 1..12 : monthNames[k] = name
  THEN (CHOOSE k \in 1..12 : monthNames[k] = name) - 1
  ELSE 0 - 1

\* null, and the absent field of an object
Null == [null |-> TRUE]

IsLeapYear(y) == y % 4 = 0 /\ (y % 100 # 0 \/ y % 400 = 0)
DaysInMonth(y, m) ==
  IF m = 1 THEN (IF IsLeapYear(y) THEN 29 ELSE 28)
  ELSE IF m \in {3, 5, 8, 10} THEN 30 ELSE 31

\* new Date(y, m, 1): a month index outside 0..11 carries into the year
NewDate(y, m) ==
  [y |-> (y * 12 + m) \div 12, m |-> (y * 12 + m) % 12, d |-> 1]

\* new Date(now.getTime() - 28 * 24 * 60 * 60 * 1000)
MinusFourWeeks(now) ==
  IF now.d > 28 THEN [now EXCEPT !.d = now.d - 28]
  ELSE LET prev == NewDate(now.y, now.m - 1)
       IN  [prev EXCEPT !.d = now.d + DaysInMonth(prev.y, prev.m) - 28]

\* a >= b on dates
DateGeq(a, b) ==
  \/ a.y > b.y
  \/ a.y = b.y /\ a.m > b.m
  \/ a.y = b.y /\ a.m = b.m /\ a.d >= b.d

\* the period switch: startDate and monthsToShow
StartDate(period, now) ==
  CASE period = "week" -> MinusFourWeeks(now)
    [] period = "month" -> NewDate(now.y, now.m)
    [] period = "quarter" -> NewDate(now.y, (now.m \div 3) * 3)
    [] period = "year" -> NewDate(now.y, 0)
    [] OTHER -> NewDate(now.y, now.m - 5)

\* three months whatever the period
MonthsToShowThree(period) == 3

\* the first period switch: monthsToShow
MonthsToShow(period) ==
  CASE period = "week" -> 1
    [] period = "month" -> 1
    [] period = "quarter" -> 3
    [] period = "year" -> 12
    [] OTHER -> 6

\* the sum of the amounts of a set of invoices
RECURSIVE SumAmounts(_)
SumAmounts(invoices) ==
  IF invoices = {} THEN Zero
  ELSE LET inv == CHOOSE v \in invoices : TRUE
       IN  Add(inv.amount, SumAmounts(invoices \ {inv}))

\* Math.round: the nearest integer, halves upward; NaN and Infinity stay
MathRound(a) ==
  IF IsFinite(a) THEN Num((2 * a.n + a.d) \div (2 * a.d)) ELSE a

\* revenueByMonth: one key per month from startDate on, in insertion order,
\* each invoice added to the key of the month name of its paidDate
revenueByMonth(startDate, monthsToShow, paidInvoices) ==
  [i \in 1..monthsToShow |->
     LET monthKey == monthNames[NewDate(startDate.y, startDate.m + i - 1).m + 1]
     IN  [month |-> monthKey,
          total |-> SumAmounts({inv \in paidInvoices :
                                  monthNames[inv.paidDate.m + 1] = monthKey})]]

\* allMonths: the keys in order, with the rounded total and the position
allMonths(rev) ==
  [i \in 1..Len(rev) |->
     [month |-> rev[i].month, actual |-> MathRound(rev[i].total).n,
      index |-> i - 1, projected |-> Null]]

\* a findIndex that finds no month
firstDataIndexNone(months) == 0 - 1

\* allMonths.findIndex(m => m.actual > 0)
firstDataIndex(months) ==
  IF \E i \in 1..Len(months) : months[i].actual > 0
  THEN (CHOOSE i \in 1..Len(months) :
          /\ months[i].actual > 0
          /\ \A j \in 1..(i - 1) : ~(months[j].actual > 0)) - 1
  ELSE 0 - 1

\* trends that all carry index 0
trendsUnnumbered(months) ==
  [i \in 1..Len(months) |-> [months[i] EXCEPT !.index = 0]]

\* trends: the months from the first one with revenue on, renumbered
trends(months) ==
  LET first == firstDataIndex(months)
  IN  IF first >= 0
      THEN [idx \in 1..(Len(months) - first) |->
              [months[first + idx] EXCEPT !.index = idx - 1]]
      ELSE months

\* the second period switch: futurePoints
FuturePoints(period) == IF period = "week" THEN 4 ELSE 3

\* a regression block that is content with two months
EnoughTrendsTwo(t) == Len(t) >= 2

\* line 152: the regression block runs on three months or more
EnoughTrends(t) == Len(t) >= 3

\* a cubic whatever the number of months
DegreeForCubic(n) == 3

\* line 157: quadratic, or cubic from five months on
DegreeFor(n) == IF n >= 5 THEN 3 ELSE 2

\* a label that starts at the month of the last trend entry
MonthLabelFromLast(lastMonthIndex, i) ==
  monthNames[((lastMonthIndex + i) % 12) + 1]

\* lines 194-196: the label of projection i (from 0)
MonthLabel(lastMonthIndex, i) ==
  monthNames[((lastMonthIndex + i + 1) % 12) + 1]

\* lines 148-204: the regression block on trends, and what the handler holds
\* after it; an exception of the engine ends the request in the catch block
Forecast(period, t) ==
  IF EnoughTrends(t)
  THEN LET dataPoints == [i \in 1..Len(t) |-> [x |-> t[i].index, y |-> t[i].actual]]
           deg == DegreeFor(Len(t))
           fit == polynomialRegression(dataPoints, deg)
           future == generateProjections(dataPoints, FuturePoints(period), deg)
           lastMonthIndex == IndexOfMonth(t[Len(t)].month)
       IN  IF fit.threw \/ future.threw
           THEN [pc |-> "failed", called |-> TRUE, dataPoints |-> dataPoints,
                 degree |-> deg, coefficients |-> << >>, rSquared |-> Null,
                 trends |-> t, futurePoints |-> 0, projections |-> << >>]
           ELSE [pc |-> "done", called |-> TRUE, dataPoints |-> dataPoints,
                 degree |-> deg, coefficients |-> fit.value,
                 rSquared |-> calculateR2(dataPoints, fit.value),
                 trends |-> [i \in 1..Len(t) |->
                               [t[i] EXCEPT !.projected =
                                  MathRound(predict(Num(t[i].index), fit.value))]],
                 futurePoints |-> FuturePoints(period),
                 projections |->
                   [i \in 1..Len(future.value) |->
                      [month |-> MonthLabel(lastMonthIndex, i - 1),
                       projected |-> MathRound(future.value[i].y)]]]
  ELSE [pc |-> "done", called |-> FALSE, dataPoints |-> << >>, degree |-> 0,
        coefficients |-> << >>, rSquared |-> Null, trends |-> t,
        futurePoints |-> 0, projections |-> << >>]

\* the requests: the period parameter ("6months" stands for every value the
\* switch sends to its default branch) and the day the request arrives
Periods == {"week", "month", "quarter", "year", "6months"}
Nows ==
  {[y |-> 2026, m |-> 0, d |-> 10], [y |-> 2026, m |-> 1, d |-> 10],
   [y |-> 2026, m |-> 2, d |-> 30], [y |-> 2026, m |-> 5, d |-> 10],
   [y |-> 2026, m |-> 11, d |-> 30]}

\* the paid invoices the query can return: at most two, paid on the 5th or
\* the 20th of a month from startDate's month to the month after now, and
\* not before startDate
PaidAmounts == {[d |-> 5, amount |-> Frac(1, 4)], [d |-> 20, amount |-> One]}
PaidInvoices(startDate, now) ==
  {inv \in {[amount |-> k.amount,
             paidDate |-> [NewDate(startDate.y, startDate.m + i) EXCEPT !.d = k.d]] :
              k \in PaidAmounts, i \in 0..13} :
     /\ DateGeq(inv.paidDate, startDate)
     /\ DateGeq(NewDate(now.y, now.m + 2), inv.paidDate)
     /\ inv.paidDate # NewDate(now.y, now.m + 2)}
QueryResults(startDate, now) ==
  {{}} \cup {{a, b} : a \in PaidInvoices(startDate, now),
                      b \in PaidInvoices(startDate, now)}

\* everything but the request
fitState == <<data, degree, futurePoints, px, coefficients, fitted, op, threw,
              py, projections, rSquared, proc, heap>>

\* lines 41-82: the request arrives; startDate and monthsToShow are set
ReceiveRequest ==
  /\ request.pc = "idle"
  /\ \E period \in Periods, now \in Nows :
       request' = [pc |-> "query", period |-> period, now |-> now,
                   startDate |-> StartDate(period, now),
                   monthsToShow |-> MonthsToShow(period)]
  /\ UNCHANGED fitState

\* lines 85-204: the query returns the paid invoices, the handler groups
\* them by month, builds trends and runs the regression block
ServeRequest ==
  /\ request.pc = "query"
  /\ \E paidInvoices \in QueryResults(request.startDate, request.now) :
       LET rev == revenueByMonth(request.startDate, request.monthsToShow,
                                 paidInvoices)
           out == Forecast(request.period, trends(allMonths(rev)))
       IN  request' = [pc |-> out.pc, period |-> request.period,
                       now |-> request.now, startDate |-> request.startDate,
                       monthsToShow |-> request.monthsToShow,
                       paidInvoices |-> paidInvoices, revenueByMonth |-> rev,
                       called |-> out.called, dataPoints |-> out.dataPoints,
                       degree |-> out.degree,
                       coefficients |-> out.coefficients,
                       rSquared |-> out.rSquared, trends |-> out.trends,
                       futurePoints |-> out.futurePoints,
                       projections |-> out.projections]
  /\ UNCHANGED fitState

NextRevenue ==
  \/ ReceiveRequest
  \/ ServeRequest

\* GET /analytics/revenue, one request
SpecRevenue == Init /\ [][NextRevenue]_vars

\* ------------------------------------------------------------------------
\* Properties
\* ------------------------------------------------------------------------
AllFinite(v) == \A i \in 1..Len(v) : IsFinite(v[i])

\* the value of the polynomial with coefficient vector c at the integer x,
\* by Horner's rule from the highest power down
RECURSIVE Horner(_, _, _)
Horner(x, c, k) ==
  IF k > Len(c) THEN Zero
  ELSE Add(c[k], Mul(Num(x), Horner(x, c, k + 1)))

PolyValue(x, c) == Horner(x, c, 1)

\* C1: predict returns a value >= 0 for every x and every coefficient vector,
\* and so every y emitted by generateProjections is >= 0.
C1_NonNegative ==
  /\ op = "predict" => Geq(py, Zero)
  /\ (op = "generateProjections" /\ ~threw) =>
       \A i \in 1..Len(projections) : Geq(projections[i].y, Zero)

\* C2: on a vector of numbers, predict(x, coefficients) is the polynomial value
\* sum of coefficients[i] * x^i when that value is non-negative, and 0 otherwise.
C2_PredictIsClampedPolynomial ==
  (op = "predict" /\ AllFinite(coefficients)) =>
     LET raw == PolyValue(px, coefficients)
     IN  py = (IF raw.n >= 0 THEN raw ELSE Zero)

C2_Witness ==
  /\ op = "predict"
  /\ coefficients = <<Num(100), Num(-50), Num(5)>>
  /\ px = 3
  /\ PolyValue(px, coefficients) = Num(-5)
  /\ py = Zero

\* C3: for a non-empty series whose final sample has x = last_x,
\* generateProjections returns exactly futurePoints samples with
\* x = last_x + 1, ..., last_x + futurePoints, in that order.
C3_ProjectionsContiguous ==
  (op = "generateProjections" /\ Len(data) > 0) =>
     /\ ~threw
     /\ Len(projections) = futurePoints
     /\ \A i \in 1..futurePoints :
          projections[i].x = data[Len(data)].x + i

C3_Witness ==
  /\ op = "generateProjections"
  /\ Len(data) = 2
  /\ data[1].x = 2
  /\ data[2].x = 1
  /\ futurePoints = 2
  /\ projections[1].x = 2
  /\ projections[2].x = 3

\* ---- the fit ----
IntMax(a, b) == IF a > b THEN a ELSE b

DistinctX(series) == Cardinality({series[i].x : i \in 1..Len(series)})

\* the effective degree as the specification states it
ClampedDegree(n, deg) == IF n >= deg + 1 THEN deg ELSE IntMax(1, n - 1)

\* y_i minus the unclamped polynomial value at x_i
Residual(series, c, i) ==
  Sub(Num(series[i].y), PolyValue(series[i].x, c))

\* sum over the samples of residual_i * x_i^j
ResidualMoment(series, c, j) ==
  SumTo([i \in 1..Len(series) |->
           Mul(Residual(series, c, i), MathPow(Num(series[i].x), j))],
        Len(series))

\* C4: polynomialRegression uses the degree d' = degree when n >= degree + 1
\* and max(1, n - 1) otherwise, and returns d' + 1 coefficients in ascending
\* power order: a_j is the coefficient of x^j, so that the residuals of a
\* finite fit are orthogonal to every power x^0 .. x^d'.
C4_EffectiveDegree ==
  (op = "polynomialRegression" /\ Len(data) >= 1) =>
     LET dPrime == ClampedDegree(Len(data), degree)
     IN  /\ ~threw
         /\ Len(coefficients) = dPrime + 1
         /\ AllFinite(coefficients) =>
              \A j \in 0..dPrime : ResidualMoment(data, coefficients, j) = Zero

C4_Witness ==
  /\ op = "polynomialRegression"
  /\ Len(data) = 2
  /\ degree = 3
  /\ Len(coefficients) = 2
  /\ AllFinite(coefficients)
  /\ coefficients[2] # Zero

\* C5: for every series with len(series) < degree + 1, polynomialRegression
\* does not throw and returns at most len(series) coefficients.
C5_ClampedFitWithinData ==
  (op = "polynomialRegression" /\ Len(data) < degree + 1) =>
     /\ ~threw
     /\ Len(coefficients) <= Len(data)

\* ---- least squares ----
RECURSIVE IntPow(_, _)
IntPow(b, e) == IF e = 0 THEN 1 ELSE b * IntPow(b, e - 1)

RECURSIVE PowerSum(_, _, _)
\* sum of x_i^p over the first k samples
PowerSum(series, p, k) ==
  IF k = 0 THEN 0 ELSE PowerSum(series, p, k - 1) + IntPow(series[k].x, p)

RECURSIVE MomentSum(_, _, _)
\* sum of y_i * x_i^p over the first k samples
MomentSum(series, p, k) ==
  IF k = 0 THEN 0
  ELSE MomentSum(series, p, k - 1) + series[k].y * IntPow(series[k].x, p)

\* (X^T X) b = X^T Y, row by row
NormalEquations(series, b) ==
  \A j \in 0..(Len(b) - 1) :
     SumTo([k \in 1..Len(b) |->
              Mul(Num(PowerSum(series, j + k - 1, Len(series))), b[k])],
           Len(b))
       = Num(MomentSum(series, j, Len(series)))

\* sum of squared unclamped residuals
SquaredResiduals(series, c) ==
  SumTo([i \in 1..Len(series) |->
           Mul(Residual(series, c, i), Residual(series, c, i))],
        Len(series))

Steps == {Num(-1), Frac(-1, 2), Frac(-1, 3), Frac(1, 3), Frac(1, 2), One}

\* coefficient vectors of the length of c: c moved in one coordinate, or in
\* all of them at once
Competitors(c) ==
  {[c EXCEPT ![k] = Add(c[k], s)] : k \in 1..Len(c), s \in Steps}
    \cup {[k \in 1..Len(c) |-> Add(c[k], s)] : s \in Steps}

\* C6: for a series with at least d' + 1 distinct x values the coefficients
\* are the least-squares solution: they satisfy (X^T X) b = X^T Y, and no
\* other vector of the same length has a smaller sum of squared residuals.
C6_LeastSquares ==
  (/\ op = "polynomialRegression"
   /\ Len(data) >= 1
   /\ DistinctX(data) >= ClampedDegree(Len(data), degree) + 1) =>
     /\ ~threw
     /\ AllFinite(coefficients)
     /\ NormalEquations(data, coefficients)
     /\ \A c \in Competitors(coefficients) :
          Geq(SquaredResiduals(data, c), SquaredResiduals(data, coefficients))

C6_Witness ==
  /\ op = "polynomialRegression"
  /\ Len(data) = 3
  /\ DistinctX(data) = 3
  /\ degree = 1
  /\ coefficients = <<Frac(1, 3), Zero>>
  /\ SquaredResiduals(data, coefficients) = Frac(2, 3)

\* ---- exact fits ----
\* candidate polynomials: coefficient vectors of halves between -2 and 2
PolynomialValues == {Frac(k, 2) : k \in -4..4}
Polynomials(len) == [1..len -> PolynomialValues]

\* p has degree d exactly (a constant has degree 0)
HasDegree(p, d) == Len(p) = d + 1 /\ (d = 0 \/ p[d + 1] # Zero)

\* every sample lies on the polynomial p
OnPolynomial(series, p) ==
  \A i \in 1..Len(series) : PolyValue(series[i].x, p) = Num(series[i].y)

\* C7: for any series of n points lying exactly on a polynomial of degree
\* d <= n - 1, polynomialRegression(series, d) recovers its coefficients.
C7_ExactFitRecovered ==
  (op = "polynomialRegression" /\ degree <= Len(data) - 1) =>
     \A p \in Polynomials(degree + 1) :
        (HasDegree(p, degree) /\ OnPolynomial(data, p)) =>
           (~threw /\ coefficients = p)

\* C7 as amended: for any series of n points with at least d + 1 distinct x
\* values lying exactly on a polynomial of degree at most d <= n - 1,
\* polynomialRegression(series, d) recovers that polynomial's coefficients.
C7_ExactFitRecoveredDistinctX ==
  (/\ op = "polynomialRegression"
   /\ degree <= Len(data) - 1
   /\ DistinctX(data) >= degree + 1) =>
     \A p \in Polynomials(degree + 1) :
        OnPolynomial(data, p) => (~threw /\ coefficients = p)

C7_Witness ==
  /\ op = "polynomialRegression"
  /\ data = <<[x |-> 0, y |-> 1], [x |-> 1, y |-> 0], [x |-> 2, y |-> 1]>>
  /\ degree = 2
  /\ OnPolynomial(data, <<One, Num(-2), One>>)
  /\ coefficients = <<One, Num(-2), One>>

\* C8: for any series of n points lying exactly on a polynomial of degree
\* d <= n - 1, calculateR2(series, polynomialRegression(series, d)) is 1,
\* constant series included.
C8_ExactFitR2IsOne ==
  (op = "calculateR2" /\ fitted /\ degree <= Len(data) - 1) =>
     ((\E p \in Polynomials(degree + 1) :
          HasDegree(p, degree) /\ OnPolynomial(data, p))
        => rSquared = One)

\* ---- degenerate input ----
\* C9: when the normal-equations matrix is singular (fewer distinct x values
\* than coefficients), polynomialRegression fails explicitly and returns no
\* coefficient vector containing NaN or Infinity.
C9_SingularFitRejected ==
  (/\ op = "polynomialRegression"
   /\ Len(data) >= 1
   /\ DistinctX(data) < ClampedDegree(Len(data), degree) + 1) =>
     /\ threw
     /\ AllFinite(coefficients)

\* C10: when every observed y is identical, calculateR2 returns a defined
\* result, never NaN or Infinity.
C10_ZeroVarianceR2Finite ==
  (/\ op = "calculateR2"
   /\ Len(data) >= 1
   /\ \A i \in 1..Len(data) : data[i].y = data[1].y) =>
     IsFinite(rSquared)

\* ---- the empty series ----
\* C11: generateProjections called with an empty series ends in an error and
\* returns no projections (none anchored at x = 0).
C11_EmptySeriesRejected ==
  (op = "generateProjections" /\ Len(data) = 0) =>
     /\ threw
     /\ projections = << >>

C11_Witness ==
  /\ op = "generateProjections"
  /\ data = << >>
  /\ futurePoints = 2
  /\ threw
  /\ projections = << >>

\* ---- the test series ----
\* C13: for the six-point test series with degree 2 the fit has 3
\* coefficients, R2 lies in [0, 1], and the 3 projections have x = 6, 7, 8
\* and y >= 0.
C13_TestSeries ==
  op = "testRegression" =>
     /\ ~threw
     /\ data = testData
     /\ Len(coefficients) = 3
     /\ Geq(rSquared, Zero)
     /\ Geq(One, rSquared)
     /\ Len(projections) = 3
     /\ \A i \in 1..3 :
          /\ projections[i].x = 5 + i
          /\ Geq(projections[i].y, Zero)

C13_Witness ==
  /\ op = "testRegression"
  /\ coefficients = <<Frac(20000, 7), Frac(1125, 7), Frac(25, 7)>>
  /\ rSquared = Frac(9383, 12299)
  /\ projections[1] = [x |-> 6, y |-> Num(3950)]

\* ---- the score ----
RECURSIVE SumY(_, _, _)
\* sum of y_i^e over the first k samples
SumY(series, e, k) ==
  IF k = 0 THEN 0 ELSE SumY(series, e, k - 1) + IntPow(series[k].y, e)

\* sum of (y_i - mean)^2, from the sums of y and y^2
TotalSquares(series) ==
  LET n == Len(series)
  IN  Frac(n * SumY(series, 2, n) - SumY(series, 1, n) * SumY(series, 1, n), n)

\* the polynomial value at x, counted as 0 when it is below 0
ClampedValue(x, c) ==
  LET raw == PolyValue(x, c) IN IF raw.n >= 0 THEN raw ELSE Zero

\* sum of (y_i - clamped fitted value)^2
ClampedResidualSquares(series, c) ==
  SumTo([i \in 1..Len(series) |->
           LET r == Sub(Num(series[i].y), ClampedValue(series[i].x, c))
           IN  Mul(r, r)],
        Len(series))

\* C16: calculateR2 applies no bound: when SS_residual > SS_total > 0 the
\* value 1 - SS_residual/SS_total is returned as computed, a score below 0.
C16_R2NotClamped ==
  (/\ op = "calculateR2"
   /\ Len(data) >= 1
   /\ AllFinite(coefficients)
   /\ Gt(TotalSquares(data), Zero)
   /\ Gt(ClampedResidualSquares(data, coefficients), TotalSquares(data))) =>
     /\ Gt(Zero, rSquared)
     /\ Mul(Sub(One, rSquared), TotalSquares(data))
          = ClampedResidualSquares(data, coefficients)

C16_Witness ==
  /\ op = "calculateR2"
  /\ Len(data) = 3
  /\ fitted = FALSE
  /\ Gt(ClampedResidualSquares(data, coefficients), TotalSquares(data))
  /\ rSquared = Num(-2)

\* C20: calculateR2 returns 1 - SS_residual/SS_total with SS_total the sum of
\* (y_i - mean)^2 and SS_residual the sum of (y_i - predict(x_i))^2, a fitted
\* value below 0 being counted as 0.
C20_R2Formula ==
  (op = "calculateR2" /\ Len(data) >= 1 /\ AllFinite(coefficients)) =>
     rSquared = Sub(One, Div(ClampedResidualSquares(data, coefficients),
                             TotalSquares(data)))

C20_Witness ==
  /\ op = "calculateR2"
  /\ fitted
  /\ \E i \in 1..Len(data) : PolyValue(data[i].x, coefficients).n < 0
  /\ IsFinite(rSquared)
  /\ rSquared # Sub(One, Div(SquaredResiduals(data, coefficients),
                             TotalSquares(data)))

\* ---- overlap ----
ProjectedX == {projections[i].x : i \in 1..Len(projections)}
ObservedX == {data[i].x : i \in 1..Len(data)}

\* C17: for every non-empty series, whatever the order of its x values, no
\* projected x equals the x of a sample of the series.
C17_NoOverlap ==
  (op = "generateProjections" /\ Len(data) >= 1) =>
     ProjectedX \cap ObservedX = {}

\* C17 as amended: for every non-empty series whose final sample has the
\* largest x, no projected x equals the x of a sample of the series.
C17_NoOverlapLastIsLargest ==
  (/\ op = "generateProjections"
   /\ Len(data) >= 1
   /\ \A i \in 1..Len(data) : data[i].x <= data[Len(data)].x) =>
     ProjectedX \cap ObservedX = {}

C17_Witness ==
  /\ op = "generateProjections"
  /\ Len(data) = 3
  /\ data[1].x = 1 /\ data[2].x = 0 /\ data[3].x = 2
  /\ ProjectedX = {3, 4}

\* ---- the fit step by step ----
Finished(c) == c.kind = "fit" /\ c.pc \in {"done", "returned"}

\* C12: two calls of polynomialRegression with the same series and degree,
\* made one after the other or interleaved, return the same coefficients.
C12_SameInputsSameCoefficients ==
  \A p \in Procs, q \in Procs :
    (/\ Finished(proc[p]) /\ Finished(proc[q])
     /\ proc[p].data = proc[q].data
     /\ proc[p].degree = proc[q].degree) =>
       /\ proc[p].threw = proc[q].threw
       /\ proc[p].x = proc[q].x

C12_Witness ==
  /\ proc[1].pc = "returned"
  /\ proc[2].pc = "done"
  /\ proc[1].data = <<[x |-> 0, y |-> 0], [x |-> 1, y |-> 1]>>
  /\ proc[2].data = proc[1].data
  /\ proc[1].x = <<Zero, One>>
  /\ proc[2].x = <<Zero, One>>

\* C15: whatever the interleaving of the steps of two callers, each call
\* returns what the same call returns when it runs alone.
C15_SameAsAlone ==
  \A p \in Procs :
    Finished(proc[p]) =>
      [threw |-> proc[p].threw, value |-> proc[p].x]
        = polynomialRegression(proc[p].data, proc[p].degree)

\* caller 2 entered between the entry and the copy of caller 1, and caller 1
\* is done while caller 2 is still solving another series
C15_Witness ==
  /\ proc[1].pc = "done"
  /\ proc[2].pc = "back"
  /\ proc[1].data # proc[2].data
  /\ proc[1].A[1] < proc[2].A[1]
  /\ proc[2].A[1] < proc[1].augmented[1]
  /\ proc[1].augmented[1] < proc[2].augmented[1]

\* C14: the calls leave their arguments as they were: the series and the
\* coefficient vector of the engine's calls, and through the elimination the
\* rows of A and b, the elimination writing to rows of its own.
C14_ArgumentsUnchanged ==
  [][/\ (op # "none" => data' = data)
     /\ ((op = "polynomialRegression" /\ ~threw) => coefficients' = coefficients)
     /\ \A p \in Procs :
          proc[p].pc \in {"called", "forward", "back"} =>
            /\ proc'[p].data = proc[p].data
            /\ proc'[p].degree = proc[p].degree
            /\ proc'[p].A = proc[p].A
            /\ proc'[p].b = proc[p].b
            /\ Matrix(heap', proc[p].A) = Matrix(heap, proc[p].A)
            /\ heap'[proc[p].b] = heap[proc[p].b]]_vars

\* the elimination has rewritten the working rows of a fit, and A still
\* holds the normal equations of the series
C14_Witness ==
  /\ proc[1].pc = "back"
  /\ proc[1].kind = "fit"
  /\ Len(proc[1].A) = 3
  /\ LET A == Matrix(heap, proc[1].A)
         X == DesignMatrix(data, EffectiveDegree(Len(data), degree))
     IN  /\ A = matrixMultiply(transpose(X), X)
         /\ \E k \in 1..3 :
              heap[proc[1].augmented[k]] # Append(A[k], heap[proc[1].b][k])

\* caller p takes a step of the forward elimination
ForwardStepTaken(p) == proc[p].pc = "forward" /\ proc'[p] # proc[p]

\* C18: at every step i of the forward elimination the row placed at
\* position i is one of the rows i..n, none of which has a larger absolute
\* value in column i, and when the pivot is a number other than 0 every
\* factor has absolute value at most 1.
C18_PartialPivoting ==
  [][\A p \in Procs :
       ForwardStepTaken(p) =>
         LET i == proc[p].i
             n == Len(proc[p].A)
             M == Matrix(heap, proc[p].augmented)
             placed == heap'[proc'[p].augmented[i]]
             factors == proc'[p].factors
         IN  /\ \E k \in i..n : placed = M[k]
             /\ \A k \in i..n : ~Gt(MathAbs(M[k][i]), MathAbs(placed[i]))
             /\ (\A k \in i..n : IsFinite(M[k][i])) =>
                   \A k \in i..n : Geq(MathAbs(placed[i]), MathAbs(M[k][i]))
             /\ (IsFinite(placed[i]) /\ placed[i] # Zero) =>
                   \A k \in 1..Len(factors) : Geq(One, MathAbs(factors[k]))]_vars

\* step 1 of a 2 x 2 system exchanged the rows and left the factor -1/2
C18_Witness ==
  /\ proc[1].pc = "forward"
  /\ proc[1].i = 2
  /\ Len(proc[1].A) = 2
  /\ proc[1].augmented[1] > proc[1].augmented[2]
  /\ \E k \in 1..Len(proc[1].factors) : proc[1].factors[k] = Frac(-1, 2)

\* the determinant, by expansion along the first row
RECURSIVE Det(_)
Det(M) ==
  LET n == Len(M)
      Minor(c) == [r \in 1..(n - 1) |->
                     [k \in 1..(n - 1) |-> M[r + 1][IF k < c THEN k ELSE k + 1]]]
  IN  IF n = 1 THEN M[1][1]
      ELSE SumTo([c \in 1..n |->
                    Mul(IF c % 2 = 1 THEN M[1][c] ELSE Neg(M[1][c]), Det(Minor(c)))],
                 n)

\* row j of the working matrix W holds for the unknowns x[j..n]
RowSolved(W, x, j) ==
  SumTo([k \in 1..Len(W) |-> IF k < j THEN Zero ELSE Mul(W[j][k], x[k])], Len(W))
    = W[j][Len(W) + 1]

\* C19: for a non-singular A, after the forward elimination the working
\* matrix has 0 below the diagonal, the back substitution solves the rows
\* from the last one upward, and the x returned satisfies A.x = b.
C19_GaussSolves ==
  \A p \in Procs :
    LET c == proc[p]
        n == Len(c.A)
    IN  (/\ c.pc \in {"back", "done"}
         /\ n >= 1
         /\ n <= 3
         /\ Det(Matrix(heap, c.A)) # Zero) =>
           LET W == Matrix(heap, c.augmented)
           IN  /\ \A r \in 1..n : \A k \in 1..(r - 1) : W[r][k] = Zero
               /\ \A j \in 1..n :
                    IF j > c.i THEN IsFinite(c.x[j]) /\ RowSolved(W, c.x, j)
                    ELSE c.x[j] = NaN
               /\ c.pc = "done" =>
                    matrixVectorMultiply(Matrix(heap, c.A), c.x) = heap[c.b]

C19_Witness ==
  /\ proc[1].pc = "done"
  /\ proc[1].kind = "solve"
  /\ Matrix(heap, proc[1].A)
       = <<<<Zero, One, One>>, <<One, Zero, One>>, <<One, One, Zero>>>>
  /\ heap[proc[1].b] = <<One, One, One>>
  /\ proc[1].x = <<Frac(1, 2), Frac(1, 2), Frac(1, 2)>>

\* ---- projection and fit ----
\* C21: the i-th sample of generateProjections(series, count, degree) has
\* y = predict(last_x + i, c) for the coefficients c that
\* polynomialRegression(series, degree) returned, degree fallback included.
C21_ProjectionUsesTheFit ==
  (op = "generateProjections" /\ fitted /\ ~threw) =>
     /\ Len(coefficients) = ClampedDegree(Len(data), degree) + 1
     /\ Len(projections) = futurePoints
     /\ \A i \in 1..futurePoints :
          projections[i].y = predict(Num(data[Len(data)].x + i), coefficients)

\* a two-point series asked for degree 3 and fitted with degree 1
C21_Witness ==
  /\ op = "generateProjections"
  /\ fitted
  /\ data = <<[x |-> 0, y |-> 0], [x |-> 1, y |-> 1]>>
  /\ degree = 3
  /\ coefficients = <<Zero, One>>
  /\ futurePoints = 2
  /\ projections = <<[x |-> 2, y |-> Num(2)], [x |-> 3, y |-> Num(3)]>>

\* C26: for every series with SS_total > 0 and every coefficient vector
\* calculateR2 returns a value <= 1, and 1 exactly when every fitted value,
\* floored at 0, equals the observed y.
C26_R2AtMostOne ==
  (op = "calculateR2" /\ Len(data) >= 1 /\ Gt(TotalSquares(data), Zero)) =>
     /\ Geq(One, rSquared)
     /\ (rSquared = One) <=>
          (\A i \in 1..Len(data) :
             predict(Num(data[i].x), coefficients) = Num(data[i].y))


\* the request has been answered (a response or the catch block)
Answered == request.pc \in {"done", "failed"}

\* C22: in GET /analytics/revenue the engine is called only when the trimmed
\* trends list has at least 3 entries; with fewer than 3 entries projections
\* is empty, rSquared is null and no trend entry carries a projected value
C22_EngineNeedsThreeTrends ==
  Answered =>
    /\ request.called => Len(request.trends) >= 3
    /\ Len(request.trends) < 3 =>
         /\ request.projections = << >>
         /\ request.rSquared = Null
         /\ \A i \in 1..Len(request.trends) : request.trends[i].projected = Null

\* a quarter whose first month has no revenue: two entries are left after
\* trimming and the engine is not called
C22_Witness ==
  /\ Answered
  /\ request.period = "quarter"
  /\ Len(request.trends) = 2
  /\ request.trends[1].actual > 0
  /\ ~request.called

\* the rounded total of the i-th month bucket
RoundedTotal(i) == MathRound(request.revenueByMonth[i].total).n

\* the number of leading month buckets without revenue
LeadingEmpty ==
  IF \E i \in 1..Len(request.revenueByMonth) : RoundedTotal(i) > 0
  THEN Cardinality({i \in 1..Len(request.revenueByMonth) :
                      \A j \in 1..i : RoundedTotal(j) <= 0})
  ELSE 0

\* C23: leading months with zero revenue are trimmed before fitting: if a
\* month has revenue the first forwarded sample has y > 0, later zero months
\* are kept, x is renumbered 0..n-1 in chronological order; if no month has
\* revenue no month is dropped
C23_LeadingEmptyMonthsTrimmed ==
  Answered =>
    /\ Len(request.trends) = Len(request.revenueByMonth) - LeadingEmpty
    /\ \A i \in 1..Len(request.trends) :
         /\ request.trends[i].month = request.revenueByMonth[LeadingEmpty + i].month
         /\ request.trends[i].actual = RoundedTotal(LeadingEmpty + i)
         /\ request.trends[i].index = i - 1
    /\ (\E i \in 1..Len(request.revenueByMonth) : RoundedTotal(i) > 0)
         => request.trends[1].actual > 0
    /\ request.called =>
         /\ Len(request.dataPoints) = Len(request.trends)
         /\ \A i \in 1..Len(request.dataPoints) :
              /\ request.dataPoints[i].x = i - 1
              /\ request.dataPoints[i].y = request.trends[i].actual

\* months were trimmed, a later month without revenue was kept, and the
\* series went to the engine
C23_Witness ==
  /\ Answered
  /\ request.called
  /\ LeadingEmpty > 0
  /\ request.dataPoints[1].y > 0
  /\ \E i \in 2..Len(request.dataPoints) : request.dataPoints[i].y = 0

\* C24: for every set of paid invoices and every period, the rSquared the
\* handler computes is null (fewer than 3 points) or a finite number; an
\* all-zero window of 3 or more months gives neither NaN nor Infinity
C24_RSquaredNullOrFinite ==
  Answered => (request.rSquared = Null \/ IsFinite(request.rSquared))

\* C27: every call the handler makes to polynomialRegression or
\* generateProjections passes n >= degree + 1 samples (degree 2 for 3 or 4
\* points, degree 3 for 5 or more), so the engine's degree fallback is not
\* taken and the fit has exactly the requested degree
C27_EnoughSamplesForDegree ==
  (Answered /\ request.called) =>
    /\ Len(request.dataPoints) >= request.degree + 1
    /\ request.degree = (IF Len(request.dataPoints) \in {3, 4} THEN 2 ELSE 3)
    /\ EffectiveDegree(Len(request.dataPoints), request.degree) = request.degree
    /\ request.pc = "done" => Len(request.coefficients) = request.degree + 1

\* a cubic fitted on exactly five months, and (in another request) a
\* quadratic on exactly three
C27_Witness ==
  /\ Answered
  /\ request.called
  /\ Len(request.dataPoints) = 5
  /\ request.degree = 3
  /\ Len(request.coefficients) = 4

\* the normal equations [X^T X | X^T Y] of a series, from its power sums
NormalSystem(series, deg) ==
  [j \in 1..(deg + 1) |->
     [k \in 1..(deg + 2) |->
        IF k <= deg + 1
        THEN Num(PowerSum(series, j + k - 2, Len(series)))
        ELSE Num(MomentSum(series, j - 1, Len(series)))]]

\* the pivots gaussianElimination divides by: the diagonal left by the
\* forward elimination (their product is the determinant up to sign)
Pivots(series, deg) ==
  LET reduced == ForwardElimination(NormalSystem(series, deg), 1)
  IN  [i \in 1..(deg + 1) |-> reduced[i][i]]

\* C28: for every series the handler forwards to the engine (x = 0..n-1,
\* n >= 3, degree 2 or 3 with n >= degree + 1) the normal-equations matrix
\* is non-singular: no pivot of gaussianElimination is zero and the
\* coefficients are all finite
C28_ForwardedSeriesNonSingular ==
  (Answered /\ request.called) =>
    /\ request.pc = "done"
    /\ \A pivot \in Range(Pivots(request.dataPoints, request.degree)) :
         IsFinite(pivot) /\ pivot # Zero
    /\ AllFinite(request.coefficients)

\* a cubic fitted on the twelve months of a year with revenue
C28_Witness ==
  /\ Answered
  /\ request.called
  /\ Len(request.dataPoints) = 12
  /\ request.degree = 3
  /\ \E i \in 1..4 : request.coefficients[i] # Zero
  /\ AllFinite(request.coefficients)

\* the month labels of the response: the trends, then the projections
Labels ==
  [i \in 1..(Len(request.trends) + Len(request.projections)) |->
     IF i <= Len(request.trends) THEN request.trends[i].month
     ELSE request.projections[i - Len(request.trends)].month]

\* the calendar month after a month name
NextMonthName(name) ==
  IF name = "Dec" THEN "Jan" ELSE monthNames[IndexOfMonth(name) + 2]

\* C25: the k-th projection is labelled with the k-th calendar month after
\* the month of the last trend entry, wrapping from Dec to Jan: trend labels
\* followed by projection labels are consecutive calendar months, each the
\* month after the one before
C25_LabelsConsecutive ==
  (Answered /\ request.called) =>
    /\ Len(request.projections) = request.futurePoints
    /\ \A i \in 1..(Len(Labels) - 1) : Labels[i + 1] = NextMonthName(Labels[i])

\* projections after a window that ends in Dec start again at Jan
C25_Witness ==
  /\ Answered
  /\ request.called
  /\ Len(request.projections) = 3
  /\ request.trends[Len(request.trends)].month = "Dec"
  /\ request.projections[1].month = "Jan"
  /\ request.projections[3].month = "Mar"

\* C29: for period 'week' and 'month' the handler builds exactly one month
\* bucket, trends has one entry, the engine is never called, projections is
\* empty and rSquared is null; the 'week' setting of 4 future points is
\* never used
C29_WeekAndMonthNeverForecast ==
  Answered =>
    /\ request.futurePoints # 4
    /\ request.period \in {"week", "month"} =>
         /\ Len(request.revenueByMonth) = 1
         /\ Len(request.trends) = 1
         /\ ~request.called
         /\ request.projections = << >>
         /\ request.rSquared = Null

\* a week with revenue, answered without a forecast
C29_Witness ==
  /\ Answered
  /\ request.period = "week"
  /\ request.trends[1].actual > 0
  /\ ~request.called
  /\ request.projections = << >>

\* the calendar month of the i-th month bucket
BucketDate(i) == NewDate(request.startDate.y, request.startDate.m + i - 1)

\* the month buckets' totals, added up
RECURSIVE BucketSum(_)
BucketSum(k) ==
  IF k = 0 THEN Zero
  ELSE Add(BucketSum(k - 1), request.revenueByMonth[k].total)

\* C30: for every period, each paid invoice the query returns adds its
\* amount to exactly one month bucket, the one of the calendar month and
\* year of its paidDate: the bucket totals sum to the total of the returned
\* invoices, none counted in a month of another year, none dropped
C30_EveryInvoiceInItsMonth ==
  Answered =>
    /\ \A i \in 1..Len(request.revenueByMonth) :
         request.revenueByMonth[i].total =
           SumAmounts({inv \in request.paidInvoices :
                         /\ inv.paidDate.y = BucketDate(i).y
                         /\ inv.paidDate.m = BucketDate(i).m})
    /\ BucketSum(Len(request.revenueByMonth)) = SumAmounts(request.paidInvoices)
====
